---------------------------- MODULE Spec2Model ----------------------------
(***************************************************************************)
(* A model of the OpenAlex harvesters of dap_taltech:                      *)
(*   dap_taltech/utils/oa_api.py               (works, per institution)    *)
(*   dap_taltech/utils/oa_institutions_api.py  (institutions)              *)
(* Text is modelled as a sequence of one-character strings, so that        *)
(* joining, splitting and prefix replacement are computed, not assumed.    *)
(***************************************************************************)
EXTENDS Integers, Sequences, FiniteSets, TLC

VARIABLES
    script,                  \* the program that runs: "oa_api", "oa_institutions_api", "none"
    args,                    \* its command line: [bucket, key]
    endpoint,                \* the remote endpoint it talks to (see Responses)
    pc,                      \* where main is: "main", "next", "page", "assembled", "cleaned",
                             \*   "done", "failed" ("idle" when no program runs)
    error,                   \* the exception that ended the run, or "none"
    institution_ids,         \* the list load_institution_ids returned
    gen,                     \* the generator being consumed: position in that list
    cursor,                  \* that generator's local variable
    works,                   \* the page the generator yielded, being processed
    oa_articles,             \* the DataFrames accumulated so far
    df,                      \* the table main holds
    written,                 \* the objects and files written
    requests,                \* every requests.get issued: [gen, institution_id, token]
    replies,                 \* the response to each of them, in the same order:
                             \*   [kind, meta, results]
    yields,                  \* the numbers of the requests whose page was yielded
    ended,                   \* the generators that have returned (StopIteration)
    processed,               \* how many times the body of the for loop over the pages
                             \*   has run to its end
    rpc,                     \* revert_abstract_index: "call", "returned", "raised"
    abstract_inverted_index, \* its argument: a dict, as a sequence of <<word, positions>>
    index_source,            \* "given": any dict; "built": the inverted index of source_words
    source_words,            \* the text (a sequence of words) a built argument comes from
    revert_result,           \* [err |-> exception name or "none", text |-> returned string]
    gpc,                     \* a DataGetter session: "new", "ready", "failed" ("idle": none)
    local,                   \* the constructor's arguments
    verbose,
    data_dir,                \* self.data_dir
    directory,               \* the local dataset directory on disk: [exists, files]
    syncs,                   \* the exit statuses of the aws s3 cp commands run
    log,                     \* the log records emitted: [level, names]
    calls                    \* the calls made: [method, arg, err, message, reader, path, data]

revert_vars == <<rpc, abstract_inverted_index, index_source, source_words, revert_result>>

harvest_vars ==
    <<script, args, endpoint, pc, error, institution_ids, gen, cursor, works,
      oa_articles, df, written, requests, replies, yields, ended, processed>>

getter_vars == <<gpc, local, verbose, data_dir, directory, syncs, log, calls>>

vars == <<harvest_vars, revert_vars, getter_vars>>

-----------------------------------------------------------------------------
(* Bounds of the model. *)

MaxWords == 2     \* entries of an inverted index
MaxTotal == 2     \* positions of an inverted index, over all its words
MaxPos == 1       \* largest position
MaxLen == 3       \* words of a text an index is built from
MaxIds == 2       \* institutions of the stored EE list
MaxRequests == 3  \* HTTP requests of one run

-----------------------------------------------------------------------------
(* Sequences and text. *)

Range(s) == {s[i] : i \in 1..Len(s)}

RECURSIVE SeqsUpTo(_, _)
SeqsUpTo(S, n) ==
    IF n = 0 THEN {<<>>}
    ELSE LET shorter == SeqsUpTo(S, n - 1)
         IN  shorter \cup {Append(s, x) : s \in {t \in shorter : Len(t) = n - 1}, x \in S}

RECURSIVE MaxOf(_)
MaxOf(s) ==
    IF Len(s) = 1 THEN s[1]
    ELSE LET m == MaxOf(Tail(s)) IN IF s[1] > m THEN s[1] ELSE m

Space == " "
Whitespace == {" ", "\t", "\n"}

\* " ".join(slots)
RECURSIVE JoinNoSeparator(_)
JoinNoSeparator(slots) ==
    IF slots = <<>> THEN <<>> ELSE slots[1] \o JoinNoSeparator(Tail(slots))
RECURSIVE JoinSpace(_)
JoinSpace(slots) ==
    IF slots = <<>> THEN <<>>
    ELSE IF Len(slots) = 1 THEN slots[1]
    ELSE slots[1] \o <<Space>> \o JoinSpace(Tail(slots))

\* text.split(" "): every single space separates two slots
RECURSIVE SplitOnSpace(_)
SplitOnSpace(text) ==
    IF \A i \in 1..Len(text) : text[i] # Space THEN <<text>>
    ELSE LET i == CHOOSE k \in 1..Len(text) :
                      text[k] = Space /\ \A j \in 1..(k - 1) : text[j] # Space
         IN  <<SubSeq(text, 1, i - 1)>> \o SplitOnSpace(SubSeq(text, i + 1, Len(text)))

\* text.split(): runs of whitespace separate the words, empty strings are dropped
RECURSIVE SplitWhitespace(_)
SplitWhitespace(text) ==
    IF text = <<>> THEN <<>>
    ELSE IF text[1] \in Whitespace THEN SplitWhitespace(Tail(text))
    ELSE LET stops == {k \in 1..Len(text) : text[k] \in Whitespace}
             n == IF stops = {} THEN Len(text) + 1
                  ELSE CHOOSE k \in stops : \A j \in stops : k <= j
         IN  <<SubSeq(text, 1, n - 1)>> \o SplitWhitespace(SubSeq(text, n, Len(text)))

-----------------------------------------------------------------------------
(* JSON values, tagged by type; a dict is a sequence of <<key, value>>.    *)
(* "str" carries an opaque string, "text" a sequence of characters.        *)

JNull == <<"null", "">>
NaN == <<"nan", "">>
JFalse == <<"bool", "false">>
JStr(str) == <<"str", str>>
JText(chars) == <<"text", chars>>
JList(items) == <<"list", items>>
JDict(pairs) == <<"dict", pairs>>

\* Python's truth value of v
TruthyUnlessFalse(v) == v # JFalse
Truthy(v) ==
    CASE v[1] = "null" -> FALSE
      [] v[1] = "bool" -> v[2] = "true"
      [] v[1] = "str" -> v[2] # ""
      [] v[1] \in {"text", "list", "dict"} -> v[2] # <<>>
      [] OTHER -> TRUE

\* "...{}...".format(v): the text that replaces the placeholder
Format(v) ==
    CASE v[1] = "str" -> v[2]
      [] v[1] = "null" -> "None"
      [] v[1] = "bool" -> IF v[2] = "true" THEN "True" ELSE "False"
      [] OTHER -> "?"

DictHas(d, key) == \E i \in 1..Len(d) : d[i][1] = key
\* d.get(key, default)
DictGet(d, key, default) ==
    IF DictHas(d, key) THEN d[CHOOSE i \in 1..Len(d) : d[i][1] = key][2] ELSE default
\* d[key] = value
DictSet(d, key, value) ==
    IF DictHas(d, key)
    THEN [i \in 1..Len(d) |-> IF d[i][1] = key THEN <<key, value>> ELSE d[i]]
    ELSE Append(d, <<key, value>>)

IsPrefixAt(text, old, at) ==
    /\ at + Len(old) - 1 <= Len(text)
    /\ \A k \in 1..Len(old) : text[at + k - 1] = old[k]

\* text.replace(old, ""): the occurrences of old, found left to right without
\* overlap, are removed
RemoveNothing(text, old) == text
RECURSIVE Remove(_, _)
Remove(text, old) ==
    IF text = <<>> THEN <<>>
    ELSE IF IsPrefixAt(text, old, 1)
         THEN Remove(SubSeq(text, Len(old) + 1, Len(text)), old)
         ELSE <<text[1]>> \o Remove(Tail(text), old)

-----------------------------------------------------------------------------
(* pandas, as far as the harvesters use it.  A DataFrame is its column     *)
(* names and its rows, each row the values of the columns in order.        *)

EmptyDataFrame == [columns |-> <<>>, rows |-> <<>>]

RECURSIVE AddColumns(_, _)
AddColumns(cols, names) ==
    IF names = <<>> THEN cols
    ELSE AddColumns(IF names[1] \in Range(cols) THEN cols ELSE Append(cols, names[1]),
                    Tail(names))

\* the keys of the records, in order of first appearance
RECURSIVE ColumnsOf(_)
ColumnsOf(records) ==
    IF records = <<>> THEN <<>>
    ELSE AddColumns(<<>>,
                    [i \in 1..Len(records[1]) |-> records[1][i][1]]
                        \o ColumnsOf(Tail(records)))

\* pd.DataFrame(records): a record without a column gets NaN there
DataFrame(records) ==
    LET cols == ColumnsOf(records)
    IN  [columns |-> cols,
         rows |-> [i \in 1..Len(records) |->
                      [j \in 1..Len(cols) |-> DictGet(records[i], cols[j], NaN)]]]

ColumnAt(frame, name) == CHOOSE j \in 1..Len(frame.columns) : frame.columns[j] = name
Cell(frame, row, name) == row[ColumnAt(frame, name)]

\* frame[names], defined when every name is a column (KeyError otherwise)
HasColumns(frame, names) == \A i \in 1..Len(names) : names[i] \in Range(frame.columns)
Project(frame, names) ==
    [columns |-> names,
     rows |-> [i \in 1..Len(frame.rows) |->
                  [j \in 1..Len(names) |-> Cell(frame, frame.rows[i], names[j])]]]

\* pd.concat(frames): the union of the columns, the rows in order
RECURSIVE AllColumns(_)
AllColumns(frames) ==
    IF frames = <<>> THEN <<>>
    ELSE AddColumns(<<>>, frames[1].columns \o AllColumns(Tail(frames)))
RECURSIVE AllRows(_, _)
AllRows(frames, cols) ==
    IF frames = <<>> THEN <<>>
    ELSE [i \in 1..Len(frames[1].rows) |->
             [j \in 1..Len(cols) |->
                 IF cols[j] \in Range(frames[1].columns)
                 THEN Cell(frames[1], frames[1].rows[i], cols[j]) ELSE NaN]]
         \o AllRows(Tail(frames), cols)
Concat(frames) ==
    LET cols == AllColumns(frames) IN [columns |-> cols, rows |-> AllRows(frames, cols)]

\* None, NaN and NaT are missing values
NaT == <<"nat", "">>
IsNA(v) == v[1] \in {"null", "nan", "nat"}

\* the rows whose flag is set, in order
RECURSIVE KeepRows(_, _)
KeepRows(rows, flags) ==
    IF rows = <<>> THEN <<>>
    ELSE (IF flags[1] THEN <<rows[1]>> ELSE <<>>) \o KeepRows(Tail(rows), Tail(flags))

\* frame.drop_duplicates(subset=[name]): the first row of every value stays
DropDuplicatesKeepAll(frame, name) == frame
DropDuplicates(frame, name) ==
    [frame EXCEPT !.rows =
        KeepRows(frame.rows,
                 [i \in 1..Len(frame.rows) |->
                     \A j \in 1..(i - 1) :
                         Cell(frame, frame.rows[j], name) # Cell(frame, frame.rows[i], name)])]

\* frame[frame[name].notna()]
FilterKeepsNull(frame, name) == frame
FilterNotNa(frame, name) ==
    [frame EXCEPT !.rows =
        KeepRows(frame.rows,
                 [i \in 1..Len(frame.rows) |-> ~IsNA(Cell(frame, frame.rows[i], name))])]

\* the strings pd.to_datetime parses to a date, and those it parses to NaT
DateStrings == {"2020-01-01", "2021-06-30"}
NaTStrings == {"", "NaT"}
CanParseDate(v) ==
    \/ IsNA(v) \/ v[1] = "datetime"
    \/ v[1] = "str" /\ v[2] \in DateStrings \cup NaTStrings
\* pd.to_datetime of one value: a missing value and a NaT string give NaT
ToDatetimeValue(v) ==
    IF IsNA(v) \/ (v[1] = "str" /\ v[2] \in NaTStrings) THEN NaT
    ELSE <<"datetime", v[2]>>
\* frame.assign(name=pd.to_datetime(frame[name])), defined when every value parses
ToDatetime(frame, name) ==
    [frame EXCEPT !.rows =
        [i \in 1..Len(frame.rows) |->
            [j \in 1..Len(frame.columns) |->
                IF frame.columns[j] = name
                THEN ToDatetimeValue(frame.rows[i][j]) ELSE frame.rows[i][j]]]]

-----------------------------------------------------------------------------
(* revert_abstract_index (oa_api.py).  A dict keeps insertion order, so it *)
(* is a sequence of <<word, positions>> entries with distinct words.       *)

\* [index for sublist in abstract_inverted_index.values() for index in sublist]
RECURSIVE IndexValues(_)
IndexValues(idx) ==
    IF idx = <<>> THEN <<>> ELSE idx[1][2] \o IndexValues(Tail(idx))

\* max([...]) + 1
LengthOfTextOffByOne(flat) == MaxOf(flat)
LengthOfText(flat) == MaxOf(flat) + 1

\* [""] * length_of_text: a non-positive factor gives the empty list
BlankText(n) == [i \in 1..(IF n > 0 THEN n ELSE 0) |-> <<>>]

\* recreated_text[index] = word: a negative index counts from the end, an
\* index outside the list raises IndexError
SetSlot(st, index, word) ==
    LET n == Len(st.text)
        at == IF index < 0 THEN index + n + 1 ELSE index + 1
    IN  IF st.err # "none" THEN st
        ELSE IF at < 1 \/ at > n THEN [err |-> "IndexError", text |-> <<>>]
        ELSE [st EXCEPT !.text[at] = word]

\* for index in indices: recreated_text[index] = word
PlaceWordFirstOnly(st, word, indices) ==
    IF indices = <<>> THEN st ELSE SetSlot(st, indices[1], word)
RECURSIVE PlaceWord(_, _, _)
PlaceWord(st, word, indices) ==
    IF indices = <<>> THEN st
    ELSE PlaceWord(SetSlot(st, indices[1], word), word, Tail(indices))

\* for word, indices in abstract_inverted_index.items(): ...
RECURSIVE PlaceItems(_, _)
PlaceItems(st, idx) ==
    IF idx = <<>> THEN st
    ELSE PlaceItems(PlaceWord(st, idx[1][1], idx[1][2]), Tail(idx))

\* max() of an empty sequence raises ValueError
EmptyMaxDefaultsToZero(idx) ==
    LET flat == IF IndexValues(idx) = <<>> THEN <<-1>> ELSE IndexValues(idx)
        st == PlaceItems([err |-> "none", text |-> BlankText(LengthOfText(flat))], idx)
    IN  IF st.err # "none" THEN st
        ELSE [err |-> "none", text |-> JoinSpace(st.text)]
revert_abstract_index(idx) ==
    LET flat == IndexValues(idx)
    IN  IF flat = <<>> THEN [err |-> "ValueError", text |-> <<>>]
        ELSE LET st == PlaceItems([err |-> "none",
                                   text |-> BlankText(LengthOfText(flat))], idx)
             IN  IF st.err # "none" THEN st
                 ELSE [err |-> "none", text |-> JoinSpace(st.text)]

-----------------------------------------------------------------------------
(* Inputs of revert_abstract_index. *)

Words == {<<"a">>, <<"b">>, <<>>, <<"a", " ", "b">>}
Positions == (0..MaxPos) \cup {-1}

\* the dicts over Words with at most nwords entries and total positions
RECURSIVE IndicesOf(_, _)
IndicesOf(nwords, total) ==
    IF nwords = 0 THEN {<<>>}
    ELSE LET shorter == IndicesOf(nwords - 1, total)
         IN  shorter \cup UNION {
                 {Append(idx, <<w, ps>>) :
                     w \in Words \ {idx[i][1] : i \in 1..Len(idx)},
                     ps \in SeqsUpTo(Positions, total - Len(IndexValues(idx)))} :
                 idx \in {i \in shorter : Len(i) = nwords - 1}}

Indices == IndicesOf(MaxWords, MaxTotal)

\* the positions of word w in the text ws, ascending
RECURSIVE PositionsOf(_, _, _)
PositionsOf(w, ws, from) ==
    IF from > Len(ws) THEN <<>>
    ELSE (IF ws[from] = w THEN <<from - 1>> ELSE <<>>) \o PositionsOf(w, ws, from + 1)

\* the inverted index of the text ws: one entry per distinct word, in order
\* of first occurrence, every position 0..Len(ws)-1 listed once
RECURSIVE BuildIndex(_, _)
BuildIndex(ws, from) ==
    IF from > Len(ws) THEN <<>>
    ELSE IF \E j \in 1..(from - 1) : ws[j] = ws[from] THEN BuildIndex(ws, from + 1)
    ELSE <<<<ws[from], PositionsOf(ws[from], ws, 1)>>>> \o BuildIndex(ws, from + 1)

GetterIdle ==
    /\ gpc = "idle" /\ local = FALSE /\ verbose = FALSE /\ data_dir = ""
    /\ directory = [exists |-> FALSE, files |-> {}]
    /\ syncs = <<>> /\ log = <<>> /\ calls = <<>>

HarvestIdle ==
    /\ script = "none" /\ args = [bucket |-> "", key |-> ""] /\ endpoint = "none"
    /\ pc = "idle" /\ error = "none" /\ institution_ids = <<>> /\ gen = 0
    /\ cursor = <<"bool", "false">> /\ works = <<"none", "">> /\ oa_articles = <<>>
    /\ df = [columns |-> <<>>, rows |-> <<>>]
    /\ written = <<>> /\ requests = <<>> /\ replies = <<>> /\ yields = <<>> /\ ended = {}
    /\ processed = 0

InitRevert ==
    /\ HarvestIdle /\ GetterIdle
    /\ rpc = "call"
    /\ revert_result = [err |-> "none", text |-> <<>>]
    /\ \/ /\ index_source = "given"
          /\ source_words = <<>>
          /\ abstract_inverted_index \in Indices
       \/ /\ index_source = "built"
          /\ source_words \in SeqsUpTo(Words, MaxLen)
          /\ abstract_inverted_index = BuildIndex(source_words, 1)

\* the call returns its string
RevertReturn ==
    /\ rpc = "call"
    /\ revert_abstract_index(abstract_inverted_index).err = "none"
    /\ revert_result' = revert_abstract_index(abstract_inverted_index)
    /\ rpc' = "returned"
    /\ UNCHANGED <<abstract_inverted_index, index_source, source_words, harvest_vars,
                   getter_vars>>

\* the call raises
RevertRaise ==
    /\ rpc = "call"
    /\ revert_abstract_index(abstract_inverted_index).err # "none"
    /\ revert_result' = revert_abstract_index(abstract_inverted_index)
    /\ rpc' = "raised"
    /\ UNCHANGED <<abstract_inverted_index, index_source, source_words, harvest_vars,
                   getter_vars>>

NextRevert == RevertReturn \/ RevertRaise

SpecRevert == InitRevert /\ [][NextRevert]_vars

-----------------------------------------------------------------------------
(* Constants of the programs. *)

COLUMNS ==
    <<"id", "display_name", "publication_date", "primary_location", "authorships",
      "cited_by_count", "counts_by_year", "concepts", "abstract">>

\* "https://openalex.org/"
OpenAlexPrefix ==
    <<"h", "t", "t", "p", "s", ":", "/", "/", "o", "p", "e", "n", "a", "l", "e", "x",
      ".", "o", "r", "g", "/">>

TalTech == "https://openalex.org/I111112146"
InstitutionTypes == {"TT", "EE"}

\* cursor = "*"
StartCursorStale == JStr("c1")
StartCursor == JStr("*")

-----------------------------------------------------------------------------
(* The remote side: what the stored EE list and the endpoint may hold.     *)

StoredInstitutions ==
    <<"https://openalex.org/I1", "https://openalex.org/I2",
      "https://openalex.org/I3", "https://openalex.org/I4">>

Absent == <<"absent", "">>

OtherFields(date) ==
    << <<"display_name", JStr("title")>>, <<"publication_date", date>>,
       <<"primary_location", JNull>>, <<"authorships", JList(<<>>)>>,
       <<"cited_by_count", JStr("0")>>, <<"counts_by_year", JList(<<>>)>>,
       <<"concepts", JList(<<>>)>> >>

IndexA == << <<<<"a">>, <<0>>>> >>
IndexAGapA == << <<<<"a">>, <<0, 2>>>> >>
IndexNoPositions == << <<<<"a">>, <<>>>> >>

\* a work as the API returns it: id with the prefix, a date, an inverted index
WorkOf(name, date, index) ==
    << <<"id", JText(OpenAlexPrefix \o name)>> >> \o OtherFields(date)
        \o << <<"abstract_inverted_index", index>> >>

W1 == WorkOf(<<"W", "1">>, JStr("2020-01-01"), JDict(IndexA))
\* the same work again, its id already without the prefix, its date null
W1Again ==
    << <<"id", JText(<<"W", "1">>)>> >> \o OtherFields(JNull)
        \o << <<"abstract_inverted_index", JDict(IndexAGapA)>> >>
\* no date, no abstract
W2 == WorkOf(<<"W", "2">>, JNull, JNull)
W2Again == WorkOf(<<"W", "2">>, JStr("2021-06-30"), JDict(<<>>))
\* no publication_date key at all
W3 ==
    << <<"id", JText(OpenAlexPrefix \o <<"W", "3">>)>>,
       <<"display_name", JStr("title")>>, <<"primary_location", JNull>>,
       <<"authorships", JList(<<>>)>>, <<"cited_by_count", JStr("0")>>,
       <<"counts_by_year", JList(<<>>)>>, <<"concepts", JList(<<>>)>>,
       <<"abstract_inverted_index", JDict(IndexA)>> >>
\* a date pd.to_datetime cannot parse
W4 == WorkOf(<<"W", "4">>, JStr("soon"), JDict(IndexA))
\* the prefix inside the prefix: "https" + prefix + "://openalex.org/" + "W5"
W5 ==
    << <<"id", JText(SubSeq(OpenAlexPrefix, 1, 5) \o OpenAlexPrefix
                        \o SubSeq(OpenAlexPrefix, 6, 21) \o <<"W", "5">>)>> >>
        \o OtherFields(JStr("2020-01-01")) \o << <<"abstract_inverted_index", JDict(IndexA)>> >>
NoId == OtherFields(JStr("2020-01-01")) \o << <<"abstract_inverted_index", JDict(IndexA)>> >>
NoConcepts ==
    << <<"id", JText(OpenAlexPrefix \o <<"W", "6">>)>>,
       <<"display_name", JStr("title")>>, <<"publication_date", JStr("2020-01-01")>>,
       <<"primary_location", JNull>>, <<"authorships", JList(<<>>)>>,
       <<"cited_by_count", JStr("0")>>, <<"counts_by_year", JList(<<>>)>>,
       <<"abstract_inverted_index", JDict(IndexA)>> >>
BadIndex == WorkOf(<<"W", "7">>, JStr("2020-01-01"), JDict(IndexNoPositions))
\* a date that is the empty string
W8 == WorkOf(<<"W", "8">>, JStr(""), JDict(IndexA))

\* a work that comes without the abstract_inverted_index key
W9 == << <<"id", JText(OpenAlexPrefix \o <<"W", "9">>)>> >> \o OtherFields(JStr("2020-01-01"))

InstitutionA ==
    << <<"id", JText(OpenAlexPrefix \o <<"I", "1">>)>>, <<"country_code", JStr("EE")>> >>

\* the next_cursor values of the paging endpoint; Absent: meta has no such key
CursorValues ==
    {Absent, JFalse, JNull, JStr(""), JStr("*"), JStr("c1"), JStr("c2")}

MetaOf(next) == IF next = Absent THEN JDict(<<>>) ELSE JDict(<< <<"next_cursor", next>> >>)

Json(results, meta) ==
    [kind |-> "json", data |-> << <<"results", results>>, <<"meta", meta>> >>]
Failures ==
    {[kind |-> "transport_error", data |-> <<>>], [kind |-> "bad_json", data |-> <<>>]}

\* an endpoint that varies the cursor: every cursor value, two pages, every failure
PagingPages ==
    [oa_api |-> {JList(<<>>), JList(<<W1>>)},
     oa_institutions_api |-> {JList(<<>>), JList(<<InstitutionA>>)}]
PagingResponses(program) ==
    {Json(page, MetaOf(next)) : page \in PagingPages[program], next \in CursorValues}
        \cup Failures
        \cup {[kind |-> "json", data |-> << <<"results", JList(<<>>)>> >>],
              [kind |-> "json", data |-> << <<"meta", MetaOf(JStr("c1"))>> >>],
              Json(JList(<<>>), JNull)}

\* an endpoint that varies the works: few cursors, many pages
WorksPages ==
    {JList(<<>>), JList(<<W1, W2>>), JList(<<W1Again, W2Again>>), JList(<<W2, W2Again>>),
     JList(<<W3, W5, W8>>), JList(<<W4, W9>>), JList(<<NoConcepts>>), JList(<<W1, NoId>>),
     JList(<<BadIndex>>)}
\* the pages that come with a null next_cursor, ending the stream
LastPages == {JList(<<>>), JList(<<W1, W2>>), JList(<<NoConcepts>>)}
WorksResponses ==
    {Json(page, MetaOf(JStr("c1"))) : page \in WorksPages}
        \cup {Json(page, MetaOf(JNull)) : page \in LastPages}
        \cup {[kind |-> "transport_error", data |-> <<>>],
              [kind |-> "json", data |-> << <<"meta", MetaOf(JStr("c1"))>> >>]}

Responses(ep, program) ==
    IF ep = "works" THEN WorksResponses ELSE PagingResponses(program)

-----------------------------------------------------------------------------
(* works_generator and institutions_generator: the same loop. *)

GenCount == IF script = "oa_api" THEN Len(institution_ids) ELSE 1

\* the URL of a request: the institution (works only) and the cursor
Request ==
    [gen |-> gen,
     institution_id |-> IF script = "oa_api" THEN institution_ids[gen] ELSE "",
     token |-> Format(cursor)]

\* what requests.get, r.json(), data["meta"] and .get raise on a response
FetchError(resp) ==
    IF resp.kind = "transport_error" THEN "ConnectionError"
    ELSE IF resp.kind = "bad_json" THEN "JSONDecodeError"
    ELSE IF ~DictHas(resp.data, "meta") THEN "KeyError"
    ELSE IF DictGet(resp.data, "meta", JNull)[1] # "dict" THEN "AttributeError"
    ELSE "none"

\* cursor = data["meta"].get("next_cursor", False)
NextCursorRestart(data) ==
    IF Truthy(DictGet(DictGet(data, "meta", JNull)[2], "next_cursor", JFalse))
    THEN JStr("*") ELSE JFalse
NextCursor(data) == DictGet(DictGet(data, "meta", JNull)[2], "next_cursor", JFalse)

ReplyOf(resp) ==
    [kind |-> resp.kind, meta |-> DictGet(resp.data, "meta", Absent),
     results |-> DictGet(resp.data, "results", Absent)]

\* yield results: the page of request number n goes to the consumer
YieldUnlessLast(ys, n, next) == IF Truthy(next) THEN Append(ys, n) ELSE ys
Yield(ys, n, next) == Append(ys, n)

\* next(generator) with a true cursor: one request, one page yielded
FetchAhead ==
    /\ pc \in {"next", "page"} /\ Truthy(cursor) /\ Len(requests) < MaxRequests
    /\ \E resp \in Responses(endpoint, script) :
           /\ FetchError(resp) = "none"
           /\ requests' = Append(requests, Request)
           /\ replies' = Append(replies, ReplyOf(resp))
           /\ works' = DictGet(resp.data, "results", JNull)
           /\ cursor' = NextCursor(resp.data)
           /\ yields' = Yield(yields, Len(requests) + 1, NextCursor(resp.data))
    /\ pc' = "page"
    /\ UNCHANGED <<script, args, endpoint, error, institution_ids, gen, oa_articles,
                   df, written, ended,
                   processed, revert_vars, getter_vars>>
Fetch ==
    /\ pc = "next" /\ Truthy(cursor) /\ Len(requests) < MaxRequests
    /\ \E resp \in Responses(endpoint, script) :
           /\ FetchError(resp) = "none"
           /\ requests' = Append(requests, Request)
           /\ replies' = Append(replies, ReplyOf(resp))
           /\ works' = DictGet(resp.data, "results", JNull)
           /\ cursor' = NextCursor(resp.data)
           /\ yields' = Yield(yields, Len(requests) + 1, NextCursor(resp.data))
    /\ pc' = "page"
    /\ UNCHANGED <<script, args, endpoint, error, institution_ids, gen, oa_articles,
                   df, written, ended,
                   processed, revert_vars, getter_vars>>

\* next(generator) with a true cursor: the request or its decoding raises,
\* and nothing catches it
FetchRaisesAndRetries ==
    /\ pc = "next" /\ Truthy(cursor) /\ Len(requests) < MaxRequests
    /\ \E resp \in Responses(endpoint, script) :
           /\ FetchError(resp) # "none"
           /\ requests' = Append(requests, Request)
           /\ replies' = Append(replies, ReplyOf(resp))
    /\ UNCHANGED <<script, args, endpoint, pc, error, institution_ids, gen, cursor,
                   works, oa_articles, df, written, yields, ended,
                   processed, revert_vars, getter_vars>>
FetchRaises ==
    /\ pc = "next" /\ Truthy(cursor) /\ Len(requests) < MaxRequests
    /\ \E resp \in Responses(endpoint, script) :
           /\ FetchError(resp) # "none"
           /\ requests' = Append(requests, Request)
           /\ replies' = Append(replies, ReplyOf(resp))
           /\ error' = FetchError(resp)
    /\ pc' = "failed"
    /\ UNCHANGED <<script, args, endpoint, institution_ids, gen, cursor, works,
                   oa_articles, df, written, yields, ended,
                   processed, revert_vars, getter_vars>>

\* next(generator) with a false cursor: the generator ends; the for loop goes
\* to the next institution, or the function returns the accumulated table
Exhausted ==
    /\ pc = "next" /\ ~Truthy(cursor)
    /\ IF gen < GenCount
       THEN /\ gen' = gen + 1
            /\ cursor' = StartCursor
            /\ UNCHANGED <<pc, df>>
       ELSE /\ pc' = "assembled"
            /\ df' = IF oa_articles = <<>> THEN EmptyDataFrame ELSE Concat(oa_articles)
            /\ UNCHANGED <<gen, cursor>>
    /\ ended' = ended \cup {gen}
    /\ UNCHANGED <<script, args, endpoint, error, institution_ids, works, oa_articles,
                   written, requests, replies, yields, processed, revert_vars, getter_vars>>

-----------------------------------------------------------------------------
(* get_all_works and get_all_institutions. *)

NoPage == <<"none", "">>

ProcessWorkUnlessNone(work) ==
    IF ~DictHas(work, "id") THEN [err |-> "KeyError", work |-> work]
    ELSE IF DictGet(work, "id", JNull)[1] # "text"
    THEN [err |-> "AttributeError", work |-> work]
    ELSE LET named == DictSet(work, "id",
                              JText(Remove(DictGet(work, "id", JNull)[2], OpenAlexPrefix)))
             index == DictGet(work, "abstract_inverted_index", JNull)
         IN  IF index = JNull THEN [err |-> "none", work |-> named]
             ELSE LET text == revert_abstract_index(index[2])
                  IN  IF text.err # "none" THEN [err |-> text.err, work |-> named]
                      ELSE [err |-> "none",
                            work |-> DictSet(named, "abstract", JText(text.text))]
\* lines 110-113 for one work: [err, work]
ProcessWork(work) ==
    IF ~DictHas(work, "id") THEN [err |-> "KeyError", work |-> work]
    ELSE IF DictGet(work, "id", JNull)[1] # "text"
    THEN [err |-> "AttributeError", work |-> work]
    ELSE LET named == DictSet(work, "id",
                              JText(Remove(DictGet(work, "id", JNull)[2], OpenAlexPrefix)))
             index == DictGet(work, "abstract_inverted_index", JNull)
         IN  IF ~Truthy(index) THEN [err |-> "none", work |-> named]
             ELSE LET text == revert_abstract_index(index[2])
                  IN  IF text.err # "none" THEN [err |-> text.err, work |-> named]
                      ELSE [err |-> "none",
                            work |-> DictSet(named, "abstract", JText(text.text))]

\* for work in works: the first error ends the loop
RECURSIVE ProcessAll(_)
ProcessAll(records) ==
    IF records = <<>> THEN [err |-> "none", works |-> <<>>]
    ELSE LET head == ProcessWork(records[1])
         IN  IF head.err # "none" THEN [err |-> head.err, works |-> <<>>]
             ELSE LET rest == ProcessAll(Tail(records))
                  IN  [err |-> rest.err,
                       works |-> IF rest.err # "none" THEN <<>>
                                 ELSE <<head.work>> \o rest.works]

\* the body of "for works in generator": [err, articles]
WorksLoopBodyNoTry(page, articles) ==
    IF page[1] # "list" THEN [err |-> "TypeError", articles |-> articles]
    ELSE IF page[2] = <<>> THEN [err |-> "none", articles |-> articles]
    ELSE LET done == ProcessAll(page[2])
             frame == DataFrame(done.works)
         IN  IF done.err # "none" THEN [err |-> done.err, articles |-> articles]
             ELSE IF HasColumns(frame, COLUMNS)
             THEN [err |-> "none", articles |-> Append(articles, Project(frame, COLUMNS))]
             ELSE [err |-> "KeyError", articles |-> articles]
WorksLoopBodyTryAll(page, articles) ==
    IF page[1] # "list" THEN [err |-> "TypeError", articles |-> articles]
    ELSE IF page[2] = <<>> THEN [err |-> "none", articles |-> articles]
    ELSE LET done == ProcessAll(page[2])
             frame == DataFrame(done.works)
         IN  IF done.err = "none" /\ HasColumns(frame, COLUMNS)
             THEN [err |-> "none", articles |-> Append(articles, Project(frame, COLUMNS))]
             ELSE [err |-> "none", articles |-> articles]
WorksLoopBodyFillsMissing(page, articles) ==
    IF page[1] # "list" THEN [err |-> "TypeError", articles |-> articles]
    ELSE IF page[2] = <<>> THEN [err |-> "none", articles |-> articles]
    ELSE LET done == ProcessAll(page[2])
         IN  IF done.err # "none" THEN [err |-> done.err, articles |-> articles]
             ELSE [err |-> "none",
                   articles |-> Append(articles,
                       [columns |-> COLUMNS,
                        rows |-> [i \in 1..Len(done.works) |->
                                     [j \in 1..Len(COLUMNS) |->
                                         DictGet(done.works[i], COLUMNS[j], NaN)]]])]
WorksLoopBody(page, articles) ==
    IF page[1] # "list" THEN [err |-> "TypeError", articles |-> articles]
    ELSE IF page[2] = <<>> THEN [err |-> "none", articles |-> articles]
    ELSE LET done == ProcessAll(page[2])
             frame == DataFrame(done.works)
         IN  IF done.err # "none" THEN [err |-> done.err, articles |-> articles]
             ELSE IF HasColumns(frame, COLUMNS)
             THEN [err |-> "none", articles |-> Append(articles, Project(frame, COLUMNS))]
             ELSE [err |-> "none", articles |-> articles]

\* the body of "for institutions in generator": [err, articles]
InstitutionsLoopBody(page, articles) ==
    IF page[1] # "list" THEN [err |-> "TypeError", articles |-> articles]
    ELSE IF page[2] = <<>> THEN [err |-> "none", articles |-> articles]
    ELSE [err |-> "none", articles |-> Append(articles, DataFrame(page[2]))]

LoopBodyKeepsEmpty(page, articles) ==
    IF page = JList(<<>>)
    THEN [err |-> "none", articles |-> Append(articles, EmptyDataFrame)]
    ELSE IF script = "oa_api" THEN WorksLoopBody(page, articles)
    ELSE InstitutionsLoopBody(page, articles)
LoopBody(page, articles) ==
    IF script = "oa_api" THEN WorksLoopBody(page, articles)
    ELSE InstitutionsLoopBody(page, articles)

\* the loop body runs on the page just yielded
ProcessPage ==
    /\ pc = "page"
    /\ LET out == LoopBody(works, oa_articles)
       IN  out.err = "none" /\ oa_articles' = out.articles
    /\ works' = NoPage
    /\ processed' = processed + 1
    /\ pc' = "next"
    /\ UNCHANGED <<script, args, endpoint, error, institution_ids, gen, cursor, df,
                   written, requests, replies, yields, ended, revert_vars,
                   getter_vars>>

\* the loop body raises outside the try block
ProcessPageRaises ==
    /\ pc = "page"
    /\ LoopBody(works, oa_articles).err # "none"
    /\ error' = LoopBody(works, oa_articles).err
    /\ pc' = "failed"
    /\ UNCHANGED <<script, args, endpoint, institution_ids, gen, cursor, works,
                   oa_articles, df, written, requests, replies, yields, ended,
                   processed, revert_vars, getter_vars>>

-----------------------------------------------------------------------------
(* main of oa_api.py and of oa_institutions_api.py. *)

\* oa_api: get_all_works starts; load_institution_ids returns the list (the
\* stored EE list holds any number of ids up to MaxIds)
StartWorks ==
    /\ pc = "main" /\ script = "oa_api"
    /\ args.key \in InstitutionTypes
    /\ \E ids \in IF args.key = "TT" THEN {<<TalTech>>}
                  ELSE {SubSeq(StoredInstitutions, 1, n) : n \in 0..MaxIds} :
           /\ institution_ids' = ids
           /\ IF ids = <<>>
              THEN pc' = "assembled" /\ df' = EmptyDataFrame /\ UNCHANGED <<gen, cursor>>
              ELSE pc' = "next" /\ gen' = 1 /\ cursor' = StartCursor /\ UNCHANGED df
    /\ UNCHANGED <<script, args, endpoint, error, works, oa_articles, written,
                   requests, replies, yields, ended,
                   processed, revert_vars, getter_vars>>

\* oa_api: load_institution_ids raises, on its assertion or in reading the
\* stored EE list
StartWorksRaises ==
    /\ pc = "main" /\ script = "oa_api"
    /\ args.key # "TT"
    /\ error' = IF args.key \notin InstitutionTypes THEN "AssertionError" ELSE "ClientError"
    /\ pc' = "failed"
    /\ UNCHANGED <<script, args, endpoint, institution_ids, gen, cursor, works,
                   oa_articles, df, written, requests, replies, yields, ended,
                   processed, revert_vars, getter_vars>>

\* oa_institutions_api: get_all_institutions creates its one generator
StartInstitutions ==
    /\ pc = "main" /\ script = "oa_institutions_api"
    /\ pc' = "next" /\ gen' = 1 /\ cursor' = StartCursor
    /\ UNCHANGED <<script, args, endpoint, error, institution_ids, works, oa_articles,
                   df, written, requests, replies, yields, ended,
                   processed, revert_vars, getter_vars>>

CleanErrorUnlessEmpty(frame) ==
    IF frame = EmptyDataFrame THEN "none"
    ELSE IF ~HasColumns(frame, <<"id", "publication_date">>) THEN "KeyError"
    ELSE LET dated == FilterNotNa(DropDuplicates(frame, "id"), "publication_date")
         IN  IF \E i \in 1..Len(dated.rows) :
                    ~CanParseDate(Cell(dated, dated.rows[i], "publication_date"))
             THEN "ValueError"
             ELSE "none"
\* the exception of the pipe of oa_api.main on a table, "none" if it runs
CleanError(frame) ==
    IF ~HasColumns(frame, <<"id">>) THEN "KeyError"
    ELSE IF ~HasColumns(frame, <<"publication_date">>) THEN "KeyError"
    ELSE LET dated == FilterNotNa(DropDuplicates(frame, "id"), "publication_date")
         IN  IF \E i \in 1..Len(dated.rows) :
                    ~CanParseDate(Cell(dated, dated.rows[i], "publication_date"))
             THEN "ValueError"
             ELSE "none"

\* drop_duplicates, notna filter, reset_index, to_datetime (rows carry no
\* index label here, so reset_index changes nothing)
CleanFilterFirst(frame) ==
    ToDatetime(DropDuplicates(FilterNotNa(frame, "publication_date"), "id"),
               "publication_date")
Clean(frame) ==
    ToDatetime(FilterNotNa(DropDuplicates(frame, "id"), "publication_date"),
               "publication_date")

\* oa_api.main: the pipe over the table get_all_works returned
CleanWorks ==
    /\ pc = "assembled" /\ script = "oa_api"
    /\ CleanError(df) = "none"
    /\ df' = Clean(df)
    /\ pc' = "cleaned"
    /\ UNCHANGED <<script, args, endpoint, error, institution_ids, gen, cursor, works,
                   oa_articles, written, requests, replies, yields, ended,
                   processed, revert_vars, getter_vars>>

CleanWorksRaises ==
    /\ pc = "assembled" /\ script = "oa_api"
    /\ CleanError(df) # "none"
    /\ error' = CleanError(df)
    /\ pc' = "failed"
    /\ UNCHANGED <<script, args, endpoint, institution_ids, gen, cursor, works,
                   oa_articles, df, written, requests, replies, yields, ended,
                   processed, revert_vars, getter_vars>>

ReadyToSaveEarly ==
    \/ pc = "cleaned" /\ script = "oa_api"
    \/ pc = "assembled" /\ script = "oa_institutions_api"
    \/ pc = "next"
ReadyToSave ==
    \/ pc = "cleaned" /\ script = "oa_api"
    \/ pc = "assembled" /\ script = "oa_institutions_api"

\* the object key or file name, as its parts
S3Key ==
    IF script = "oa_api" THEN <<"data/articles_clean_", args.key, ".parquet">>
    ELSE args.key
\* oa_institutions_api: args.key.split("/")[1]
LocalName ==
    IF script = "oa_api" THEN <<"articles_clean_", args.key, ".parquet">>
    ELSE <<args.key[2]>>

SaveUploadsAlways ==
    /\ ReadyToSave
    /\ written' = Append(written,
           [to |-> "s3", bucket |-> args.bucket, name |-> S3Key, table |-> df])
    /\ pc' = "done"
    /\ UNCHANGED <<script, args, endpoint, error, institution_ids, gen, cursor, works,
                   oa_articles, df, requests, replies, yields, ended,
                   processed, revert_vars, getter_vars>>
\* the table goes to the bucket, or to a local file when the bucket is "None"
Save ==
    /\ ReadyToSave
    /\ args.bucket = "None" /\ script = "oa_institutions_api" => Len(args.key) >= 2
    /\ written' = Append(written,
           IF args.bucket # "None"
           THEN [to |-> "s3", bucket |-> args.bucket, name |-> S3Key, table |-> df]
           ELSE [to |-> "file", bucket |-> "", name |-> LocalName, table |-> df])
    /\ pc' = "done"
    /\ UNCHANGED <<script, args, endpoint, error, institution_ids, gen, cursor, works,
                   oa_articles, df, requests, replies, yields, ended,
                   processed, revert_vars, getter_vars>>

\* the upload raises, or a key without "/" has no second part
SaveRaises ==
    /\ ReadyToSave
    /\ \/ args.bucket # "None" /\ error' = "ClientError"
       \/ /\ args.bucket = "None" /\ script = "oa_institutions_api" /\ Len(args.key) < 2
          /\ error' = "IndexError"
    /\ pc' = "failed"
    /\ UNCHANGED <<script, args, endpoint, institution_ids, gen, cursor, works,
                   oa_articles, df, written, requests, replies, yields, ended,
                   processed, revert_vars, getter_vars>>

-----------------------------------------------------------------------------
(* Specifications. *)

RevertIdle ==
    /\ rpc = "idle" /\ abstract_inverted_index = <<>> /\ index_source = "given"
    /\ source_words = <<>> /\ revert_result = [err |-> "none", text |-> <<>>]

HarvestStart ==
    /\ pc = "main" /\ error = "none" /\ institution_ids = <<>> /\ gen = 0
    /\ cursor = JFalse /\ works = NoPage /\ oa_articles = <<>> /\ df = EmptyDataFrame
    /\ written = <<>> /\ requests = <<>> /\ replies = <<>> /\ yields = <<>> /\ ended = {}
    /\ processed = 0

Buckets == {"dap-taltech", "None"}
WorksArgs == [bucket : Buckets, key : {"TT", "EE", "XX"}]
InstitutionsArgs ==
    [bucket : Buckets, key : {<<"data", "institutions_clean_EE.parquet">>, <<"EE.parquet">>}]

\* either program, against the endpoint that varies the cursor
Init ==
    /\ HarvestStart /\ RevertIdle /\ GetterIdle
    /\ endpoint = "paging"
    /\ \/ script = "oa_api" /\ args \in WorksArgs
       \/ script = "oa_institutions_api" /\ args \in InstitutionsArgs

Next ==
    \/ StartWorks \/ StartWorksRaises \/ StartInstitutions
    \/ Fetch \/ FetchRaises \/ Exhausted
    \/ ProcessPage \/ ProcessPageRaises
    \/ CleanWorks \/ CleanWorksRaises
    \/ Save \/ SaveRaises

Spec == Init /\ [][Next]_vars

\* oa_api against the endpoint that varies the works: the TalTech harvest to
\* a local file, the Estonian one (and an unknown key) to the bucket
WorksRuns == {a \in WorksArgs : a.bucket = "None" <=> a.key = "TT"}
InitWorks ==
    /\ HarvestStart /\ RevertIdle /\ GetterIdle
    /\ endpoint = "works"
    /\ script = "oa_api" /\ args \in WorksRuns

NextWorks ==
    \/ StartWorks \/ StartWorksRaises
    \/ Fetch \/ FetchRaises \/ Exhausted
    \/ ProcessPage \/ ProcessPageRaises
    \/ CleanWorks \/ CleanWorksRaises
    \/ Save \/ SaveRaises

SpecWorks == InitWorks /\ [][NextWorks]_vars

-----------------------------------------------------------------------------
(* DataGetter (data_getters.py).  A file name is the sequence of its parts, *)
(* the last part its extension; a path is <<directory, file name>>.        *)

MaxCalls == 2     \* method calls of one session

\* os.path.join(PROJECT_DIR, PUBLIC_DATA_FOLDER_NAME) and
\* f"s3://{os.path.join(BUCKET_NAME, PUBLIC_DATA_FOLDER_NAME)}"
LocalDataDir == "PROJECT_DIR/data"
RemoteDataDir == "s3://dap-taltech/data"

\* the file each method without a parameter asks for
FileOf ==
    [get_estonian_patents |-> <<"patents_clean_EE", ".parquet">>,
     get_surnames |-> <<"surnames", ".parquet">>,
     get_bike_demand |-> <<"bike_riding_demand", ".parquet">>,
     get_image_labels |-> <<"images/image_labels", ".parquet">>,
     get_armenian_job_adverts |-> <<"job_postings", ".csv">>,
     get_esco_skills_taxonomy |-> <<"esco_data_formatted", ".csv">>,
     get_horizon2020_iprs |-> <<"cordis_horizon/h2020_project_iprs", ".csv">>,
     get_horizon2020_project_publications |->
         <<"cordis_horizon/project_publications_clean", ".csv">>,
     get_horizon2020_project_deliverables |->
         <<"cordis_horizon/project_deliverables_clean", ".csv">>,
     get_horizon2020_report_summaries |->
         <<"cordis_horizon/report_summaries_clean", ".csv">>]
Methods == DOMAIN FileOf

\* ["TT", "TT_p", "EE"], as characters, and institution[:2]
Institutions == << <<"T", "T">>, <<"T", "T", "_", "p">>, <<"E", "E">> >>
FirstTwo(chars) == SubSeq(chars, 1, IF Len(chars) < 2 THEN Len(chars) ELSE 2)
\* f"{prefix}_{institution[:2]}.parquet"
ArticlesFile(institution) ==
    <<(IF institution # <<"T", "T", "_", "p">> THEN "articles_clean"
       ELSE "articles_preprocessed"), "_">> \o FirstTwo(institution) \o <<".parquet">>

horizon_2020_project_dfs ==
    <<"euro_sci_voc", "legal_basis", "organisation", "project", "topics", "web_item",
      "web_link">>
\* f"cordis_horizon/projects/{df_name}_clean.csv"
ProjectsFile(df_name) == <<"cordis_horizon/projects/", df_name, "_clean", ".csv">>

\* the bucket: the files under data/, each in the format its name says
RemoteFiles ==
    {FileOf[m] : m \in Methods}
        \cup {ArticlesFile(Institutions[i]) : i \in 1..Len(Institutions)}
        \cup {ProjectsFile(horizon_2020_project_dfs[i]) :
                  i \in 1..Len(horizon_2020_project_dfs)}
\* a file that is no dataset
Notes == <<"notes", ".txt">>
FormatOf(file) ==
    IF file[Len(file)] = ".parquet" THEN "parquet"
    ELSE IF file[Len(file)] = ".csv" THEN "csv" ELSE "text"

\* the local dataset directory before the session
Directories ==
    {[exists |-> FALSE, files |-> {}]}
        \cup {[exists |-> TRUE, files |-> fs] :
                  fs \in {{}, RemoteFiles,
                          {FileOf.get_surnames, FileOf.get_armenian_job_adverts, Notes}}}

\* logger.setLevel: a record is emitted when its level is not below the level
LevelNumber == [INFO |-> 20, WARNING |-> 30, ERROR |-> 40]
Emit(records, level, names) ==
    IF LevelNumber[level] >= LevelNumber[IF verbose THEN "INFO" ELSE "ERROR"]
    THEN Append(records, [level |-> level, names |-> names])
    ELSE records

InitGetter ==
    /\ HarvestIdle /\ RevertIdle
    /\ gpc = "new" /\ local \in BOOLEAN /\ verbose \in BOOLEAN /\ data_dir = ""
    /\ directory \in Directories
    /\ syncs = <<>> /\ log = <<>> /\ calls = <<>>

\* the exit statuses os.system may return for the aws s3 cp command
ExitStatuses == {0, 1}

\* DataGetter(verbose, local) with nothing to download
Construct ==
    /\ gpc = "new"
    /\ local => directory.exists /\ directory.files # {}
    /\ data_dir' = IF local THEN LocalDataDir ELSE RemoteDataDir
    /\ log' = Emit(log, "INFO", <<>>)
    /\ gpc' = "ready"
    /\ UNCHANGED <<local, verbose, directory, syncs, calls, harvest_vars, revert_vars>>

\* DataGetter(local=True) on an empty directory: os.system runs the copy and
\* its exit status is dropped
ConstructSyncs ==
    /\ gpc = "new" /\ local
    /\ directory.exists /\ directory.files = {}
    /\ data_dir' = LocalDataDir
    /\ log' = Emit(Emit(log, "INFO", <<>>), "WARNING", <<>>)
    /\ \E status \in ExitStatuses :
           /\ syncs' = Append(syncs, status)
           /\ directory' = IF status = 0 THEN [directory EXCEPT !.files = RemoteFiles]
                            ELSE directory
    /\ gpc' = "ready"
    /\ UNCHANGED <<local, verbose, calls, harvest_vars, revert_vars>>

NoCall ==
    [method |-> "", arg |-> <<>>, err |-> "none", message |-> <<>>, reader |-> "none",
     path |-> <<>>, data |-> <<>>]

\* DataGetter(local=True) without the directory: os.listdir raises
ConstructRaises ==
    /\ gpc = "new" /\ local
    /\ ~directory.exists
    /\ data_dir' = LocalDataDir
    /\ log' = Emit(log, "INFO", <<>>)
    /\ calls' = Append(calls, [NoCall EXCEPT !.method = "__init__",
                                              !.err = "FileNotFoundError"])
    /\ gpc' = "failed"
    /\ UNCHANGED <<local, verbose, directory, syncs, harvest_vars, revert_vars>>

\* the files a path of this session can reach
FilesAt(dir) ==
    IF dir = LocalDataDir THEN (IF directory.exists THEN directory.files ELSE {})
    ELSE RemoteFiles

\* pd.read_parquet(path): [err, data]
read_parquet(path) ==
    IF path[2] \notin FilesAt(path[1]) THEN [err |-> "FileNotFoundError", data |-> <<>>]
    ELSE IF FormatOf(path[2]) # "parquet" THEN [err |-> "ArrowInvalid", data |-> <<>>]
    ELSE [err |-> "none", data |-> <<"table", path[2]>>]

\* self._fetch_data(file_name): the call as it is recorded
fetch_data(method, arg, file_name) ==
    LET file_path == <<data_dir, file_name>>
    IN  [method |-> method, arg |-> arg, err |-> read_parquet(file_path).err,
         message |-> <<>>, reader |-> "read_parquet", path |-> file_path,
         data |-> read_parquet(file_path).data]

\* assert ..., logger.error(...): the message is what logger.error returns, None
AssertionFails(method, arg) ==
    [NoCall EXCEPT !.method = method, !.arg = arg, !.err = "AssertionError"]

\* the methods without a parameter
GetDataset ==
    /\ gpc = "ready" /\ Len(calls) < MaxCalls
    /\ \E m \in Methods : calls' = Append(calls, fetch_data(m, <<>>, FileOf[m]))
    /\ UNCHANGED <<gpc, local, verbose, data_dir, directory, syncs, log, harvest_vars,
                   revert_vars>>

InstitutionArgs == Range(Institutions) \cup {<<"X", "X">>, <<"E", "E", "_", "p">>}
GetOaArticlesUnchecked(institution) ==
    fetch_data("get_oa_articles", institution, ArticlesFile(institution))
get_oa_articles(institution) ==
    IF institution \notin Range(Institutions)
    THEN AssertionFails("get_oa_articles", institution)
    ELSE fetch_data("get_oa_articles", institution, ArticlesFile(institution))
GetOaArticles ==
    /\ gpc = "ready" /\ Len(calls) < MaxCalls
    /\ \E institution \in InstitutionArgs :
           /\ calls' = Append(calls, get_oa_articles(institution))
           /\ log' = IF institution \in Range(Institutions) THEN log
                      ELSE Emit(log, "ERROR", Institutions)
    /\ UNCHANGED <<gpc, local, verbose, data_dir, directory, syncs, harvest_vars,
                   revert_vars>>

ProjectArgs == {"project", "web_item", "bogus"}
get_horizon2020_projects(df_name) ==
    IF df_name \notin Range(horizon_2020_project_dfs)
    THEN AssertionFails("get_horizon2020_projects", <<df_name>>)
    ELSE fetch_data("get_horizon2020_projects", <<df_name>>, ProjectsFile(df_name))
GetHorizon2020Projects ==
    /\ gpc = "ready" /\ Len(calls) < MaxCalls
    /\ \E df_name \in ProjectArgs :
           /\ calls' = Append(calls, get_horizon2020_projects(df_name))
           /\ log' = IF df_name \in Range(horizon_2020_project_dfs) THEN log
                      ELSE Emit(log, "ERROR", horizon_2020_project_dfs)
    /\ UNCHANGED <<gpc, local, verbose, data_dir, directory, syncs, harvest_vars,
                   revert_vars>>

\* _fetch_data called with a file name of the caller's
FetchArgs == {Notes, <<"archive", ".zip">>, FileOf.get_surnames}
FetchData ==
    /\ gpc = "ready" /\ Len(calls) < MaxCalls
    /\ \E file_name \in FetchArgs :
           calls' = Append(calls, fetch_data("_fetch_data", file_name, file_name))
    /\ UNCHANGED <<gpc, local, verbose, data_dir, directory, syncs, log, harvest_vars,
                   revert_vars>>

\* what reading the stored EE list gives load_institution_ids
StoredOutcomes ==
    {[err |-> "none", ids |-> SubSeq(StoredInstitutions, 1, n)] : n \in 0..MaxIds}
        \cup {[err |-> "ClientError", ids |-> <<>>]}

\* load_institution_ids(institution_type) of oa_api.py, as a recorded call;
\* its assertion message names TT and EE
load_institution_ids(institution_type, stored) ==
    IF institution_type \notin InstitutionTypes
    THEN [NoCall EXCEPT !.method = "load_institution_ids", !.arg = <<institution_type>>,
                        !.err = "AssertionError", !.message = <<"TT", "EE">>]
    ELSE IF institution_type = "TT"
    THEN [NoCall EXCEPT !.method = "load_institution_ids", !.arg = <<institution_type>>,
                        !.data = <<TalTech>>]
    ELSE [NoCall EXCEPT !.method = "load_institution_ids", !.arg = <<institution_type>>,
                        !.reader = "s3.get_object",
                        !.path = <<"dap-taltech", "data/institutions_clean_EE.parquet">>,
                        !.err = stored.err, !.data = stored.ids]

LoadInstitutionIds ==
    /\ gpc # "idle" /\ Len(calls) < MaxCalls
    /\ \E institution_type \in InstitutionTypes \cup {"XX"}, stored \in StoredOutcomes :
           calls' = Append(calls, load_institution_ids(institution_type, stored))
    /\ UNCHANGED <<gpc, local, verbose, data_dir, directory, syncs, log, harvest_vars,
                   revert_vars>>

NextGetter ==
    \/ Construct \/ ConstructSyncs \/ ConstructRaises
    \/ GetDataset \/ GetOaArticles \/ GetHorizon2020Projects \/ FetchData
    \/ LoadInstitutionIds

SpecGetter == InitGetter /\ [][NextGetter]_vars

-----------------------------------------------------------------------------
(* Properties of revert_abstract_index, checked under SpecRevert. *)

NonNegativePositions ==
    \A i \in 1..Len(IndexValues(abstract_inverted_index)) :
        IndexValues(abstract_inverted_index)[i] >= 0

\* the precondition of the contract: a non-empty mapping whose position lists
\* are non-empty sequences of non-negative integers
ContractInput ==
    /\ abstract_inverted_index # <<>>
    /\ \A i \in 1..Len(abstract_inverted_index) : abstract_inverted_index[i][2] # <<>>
    /\ NonNegativePositions

NoSpaceInWords ==
    \A i \in 1..Len(abstract_inverted_index) :
        Space \notin Range(abstract_inverted_index[i][1])

\* C6, as stated: for every contract input, the output split on a single
\* space has max(position) + 1 slots.
C6_SlotCountAnyWords ==
    (rpc # "call" /\ ContractInput) =>
        /\ rpc = "returned"
        /\ Len(SplitOnSpace(revert_result.text))
               = MaxOf(IndexValues(abstract_inverted_index)) + 1

\* C6, amended: for every contract input whose words contain no space
\* character, the call returns and its output, split on a single space, has
\* exactly max(position) + 1 slots.
C6_SlotCount ==
    (rpc # "call" /\ ContractInput /\ NoSpaceInWords) =>
        /\ rpc = "returned"
        /\ Len(SplitOnSpace(revert_result.text))
               = MaxOf(IndexValues(abstract_inverted_index)) + 1

\* a contract input without spaces whose text has an uncovered slot
C6_Witness ==
    /\ rpc = "returned" /\ ContractInput /\ NoSpaceInWords
    /\ MaxOf(IndexValues(abstract_inverted_index)) + 1
           > Len(IndexValues(abstract_inverted_index))

\* the entries of idx whose position list contains p
Covering(idx, p) == {i \in 1..Len(idx) : p \in Range(idx[i][2])}

\* what the claim puts in slot p: the word listing p (the last one in the
\* mapping's order when several list it), the empty string when none does
ExpectedSlot(idx, p) ==
    IF Covering(idx, p) = {} THEN <<>>
    ELSE idx[CHOOSE i \in Covering(idx, p) : \A j \in Covering(idx, p) : j <= i][1]

\* the slots separated by exactly one space each, built from the right
RECURSIVE SlotsText(_)
SlotsText(slots) ==
    IF Len(slots) = 0 THEN <<>>
    ELSE IF Len(slots) = 1 THEN slots[1]
    ELSE SlotsText(SubSeq(slots, 1, Len(slots) - 1)) \o <<" ">> \o slots[Len(slots)]

TheCatSat ==
    << <<<<"t", "h", "e">>, <<0>>>>, <<<<"c", "a", "t">>, <<1>>>>, <<<<"s", "a", "t">>, <<2>>>> >>
AGapA == << <<<<"a">>, <<0, 2>>>> >>

\* C7: for non-negative positions the output is the slots 0..max joined by
\* exactly one space, slot p holding the word whose position list contains p
\* and the empty string when no list contains p; the two examples of the
\* specification give "the cat sat" and "a  a".
C7_SlotContents ==
    /\ (rpc = "returned" /\ NonNegativePositions) =>
           revert_result.text =
               SlotsText([p \in 1..(MaxOf(IndexValues(abstract_inverted_index)) + 1) |->
                             ExpectedSlot(abstract_inverted_index, p - 1)])
    /\ revert_abstract_index(TheCatSat) =
           [err |-> "none",
            text |-> <<"t", "h", "e", " ", "c", "a", "t", " ", "s", "a", "t">>]
    /\ revert_abstract_index(AGapA) = [err |-> "none", text |-> <<"a", " ", " ", "a">>]

\* an output with a covered slot, an uncovered slot and a separator
C7_Witness ==
    /\ rpc = "returned" /\ NonNegativePositions
    /\ \E p \in 0..MaxOf(IndexValues(abstract_inverted_index)) :
           Covering(abstract_inverted_index, p) = {}
    /\ \E p \in 0..MaxOf(IndexValues(abstract_inverted_index)) :
           ExpectedSlot(abstract_inverted_index, p) # <<>>

WordsWithoutWhitespace ==
    \A i \in 1..Len(source_words) : Range(source_words[i]) \cap Whitespace = {}

\* C8, as stated: for every sequence of whitespace-free words, reverting its
\* inverted index and splitting the text on whitespace gives the sequence back.
C8_RoundTripAnyWords ==
    (index_source = "built" /\ rpc # "call" /\ WordsWithoutWhitespace) =>
        /\ rpc = "returned"
        /\ SplitWhitespace(revert_result.text) = source_words

\* C8, amended: for every non-empty sequence of non-empty whitespace-free
\* words, reverting its inverted index returns a text whose split on
\* whitespace is that sequence, in the original order.
C8_RoundTrip ==
    (/\ index_source = "built" /\ rpc # "call" /\ WordsWithoutWhitespace
     /\ source_words # <<>>
     /\ \A i \in 1..Len(source_words) : source_words[i] # <<>>) =>
        /\ rpc = "returned"
        /\ SplitWhitespace(revert_result.text) = source_words

\* a round trip of a text that repeats a word between two others
C8_Witness ==
    /\ index_source = "built" /\ rpc = "returned" /\ WordsWithoutWhitespace
    /\ Len(source_words) = 3
    /\ source_words[1] = source_words[3] /\ source_words[1] # source_words[2]
    /\ \A i \in 1..3 : source_words[i] # <<>>
    /\ SplitWhitespace(revert_result.text) = source_words

\* C9: called with an empty mapping, revert_abstract_index raises (Python's
\* invalid-input error, ValueError, from max() of an empty sequence) and
\* returns no string.
C9_EmptyMappingFails ==
    (rpc # "call" /\ abstract_inverted_index = <<>>) =>
        /\ rpc = "raised"
        /\ revert_result = [err |-> "ValueError", text |-> <<>>]

\* the empty mapping has been passed and the call has raised
C9_Witness ==
    rpc = "raised" /\ abstract_inverted_index = <<>> /\ revert_result.err = "ValueError"

-----------------------------------------------------------------------------
(* Properties of the pagination driver, checked under Spec.  They are      *)
(* stated over the requests sent and the responses received.               *)

\* the response decoded to an object with a meta object
ReplyOk(r) == r.kind = "json" /\ r.meta[1] = "dict"
\* its next_cursor, Absent when meta has no such key
ReplyNext(r) ==
    IF \E k \in 1..Len(r.meta[2]) : r.meta[2][k][1] = "next_cursor"
    THEN r.meta[2][CHOOSE k \in 1..Len(r.meta[2]) : r.meta[2][k][1] = "next_cursor"][2]
    ELSE Absent
\* the response carries a next token / carries none (absent, false, null, "")
Continues(r) == ReplyOk(r) /\ ReplyNext(r) \notin {Absent, JFalse, JNull, JStr("")}
Terminates(r) == ReplyOk(r) /\ ReplyNext(r) \in {Absent, JFalse, JNull, JStr("")}

Generators == {requests[i].gen : i \in 1..Len(requests)} \cup ended
RequestsOf(g) == {i \in 1..Len(requests) : requests[i].gen = g}
YieldsOf(g) == {k \in 1..Len(yields) : requests[yields[k]].gen = g}
\* N: the responses to generator g that carried a next_cursor
PagesWithNext(g) == {i \in RequestsOf(g) : Continues(replies[i])}

\* C1, as stated: a generator that was given a next_cursor for N pages and
\* then next_cursor false has yielded exactly N pages when it ends.
C1_YieldsN ==
    \A g \in ended :
        (\E i \in RequestsOf(g) : ReplyOk(replies[i]) /\ ReplyNext(replies[i]) = JFalse)
            => Cardinality(YieldsOf(g)) = Cardinality(PagesWithNext(g))

\* C1, amended: a generator that was given a next_cursor for N pages sends at
\* most N + 1 requests, and when it ends (on the first response without a
\* next token) it has sent exactly N + 1 requests and yielded exactly N + 1
\* pages: the N pages that carried a next_cursor and the last one.
C1_YieldsNPlusOne ==
    \A g \in Generators :
        /\ Cardinality(RequestsOf(g)) <= Cardinality(PagesWithNext(g)) + 1
        /\ g \in ended =>
               /\ Cardinality(RequestsOf(g)) = Cardinality(PagesWithNext(g)) + 1
               /\ Cardinality(YieldsOf(g)) = Cardinality(PagesWithNext(g)) + 1

\* a generator has ended on next_cursor false after two pages with a next_cursor
C1_Witness ==
    \E g \in ended :
        /\ Cardinality(PagesWithNext(g)) = 2
        /\ Cardinality(YieldsOf(g)) = 3
        /\ \E i \in RequestsOf(g) : ReplyOk(replies[i]) /\ ReplyNext(replies[i]) = JFalse

\* C2: a response without a next_cursor key, or with next_cursor false, null
\* or "", has its page yielded and is the last request of its generator.
C2_AbsentAndFalsyTerminate ==
    \A i \in 1..Len(replies) :
        Terminates(replies[i]) =>
            /\ i \in Range(yields)
            /\ \A j \in (i + 1)..Len(requests) : requests[j].gen # requests[i].gen

\* one generator has ended on a missing key and a later one on a falsy value,
\* with requests after the first ending
C2_Witness ==
    \E i, j \in 1..Len(replies) :
        /\ i < j /\ requests[i].gen # requests[j].gen
        /\ {requests[i].gen, requests[j].gen} \subseteq ended
        /\ ReplyOk(replies[i]) /\ ReplyNext(replies[i]) = Absent
        /\ ReplyOk(replies[j]) /\ ReplyNext(replies[j]) \in {JNull, JStr("")}

\* C3, as stated: no token value is sent in two requests of one generator.
C3_NoTokenTwice ==
    \A i, j \in 1..Len(requests) :
        (i < j /\ requests[i].gen = requests[j].gen)
            => requests[i].token # requests[j].token

Tokens == {requests[i].token : i \in 1..Len(requests)}
\* the responses to generator g that issued the token
Issued(g, token) ==
    {i \in RequestsOf(g) : Continues(replies[i]) /\ ReplyNext(replies[i])[2] = token}

\* C3, amended: within one generator a token value is sent once for each time
\* the server issued it as next_cursor, and "*" once more for the first
\* request; so no token is sent twice unless the server repeats a next_cursor
\* value or returns "*".
C3_TokenSentOncePerIssue ==
    \A g \in Generators : \A token \in Tokens :
        Cardinality({i \in RequestsOf(g) : requests[i].token = token})
            <= Cardinality(Issued(g, token)) + (IF token = "*" THEN 1 ELSE 0)

\* a generator has sent three requests with three different tokens
C3_Witness ==
    \E g \in Generators :
        /\ Cardinality(RequestsOf(g)) = 3
        /\ Cardinality({requests[i].token : i \in RequestsOf(g)}) = 3

\* C4: the first request of a generator carries "*", every later one the
\* next_cursor of the response just before it; a request names the
\* institution of its generator, and generators follow the list order.
C4_TokenChaining ==
    \A i \in 1..Len(requests) :
        /\ IF i = 1 \/ requests[i - 1].gen # requests[i].gen
           THEN /\ requests[i].token = "*"
                /\ requests[i].gen = (IF i = 1 THEN 1 ELSE requests[i - 1].gen + 1)
           ELSE /\ Continues(replies[i - 1])
                /\ requests[i].token = ReplyNext(replies[i - 1])[2]
        /\ script = "oa_api" => requests[i].institution_id = institution_ids[requests[i].gen]

\* a chained request, then the first request of the next institution
C4_Witness ==
    /\ Len(requests) = 3
    /\ requests[1].gen = requests[2].gen /\ requests[2].token = "c1"
    /\ requests[3].gen # requests[2].gen /\ requests[3].token = "*"
    /\ requests[3].institution_id # requests[2].institution_id

\* the request failed, or its response had no usable meta object
Failed(r) == ~ReplyOk(r)

\* C5: after a failed request the run is over with that error: no request
\* follows it, its page is not yielded, and nothing is written.
C5_NoRetry ==
    \A i \in 1..Len(replies) :
        Failed(replies[i]) =>
            /\ i = Len(requests)
            /\ i \notin Range(yields)
            /\ pc = "failed" /\ error # "none"
            /\ written = <<>>

\* a page was yielded, then the next request of the generator failed
C5_Witness ==
    /\ Len(replies) >= 2
    /\ Failed(replies[Len(replies)])
    /\ requests[Len(requests)].gen = requests[Len(requests) - 1].gen
    /\ pc = "failed"

-----------------------------------------------------------------------------
(* Properties of oa_api.main, checked under SpecWorks. *)

IdsOf(frame) == [i \in 1..Len(frame.rows) |-> Cell(frame, frame.rows[i], "id")]

\* C10: in every table oa_api.main persists, no id occurs in two rows.
C10_OneRowPerId ==
    \A w \in 1..Len(written) :
        \A i, j \in 1..Len(written[w].table.rows) :
            i # j => IdsOf(written[w].table)[i] # IdsOf(written[w].table)[j]

\* a table was persisted whose harvest held an id twice, both times with a date
C10_Witness ==
    /\ pc = "done" /\ Len(written) = 1 /\ Len(written[1].table.rows) >= 1
    /\ \E a, b \in 1..Len(Concat(oa_articles).rows) :
           /\ a < b
           /\ IdsOf(Concat(oa_articles))[a] = IdsOf(Concat(oa_articles))[b]
           /\ ~IsNA(Cell(Concat(oa_articles), Concat(oa_articles).rows[a], "publication_date"))
           /\ ~IsNA(Cell(Concat(oa_articles), Concat(oa_articles).rows[b], "publication_date"))

\* the table get_all_works returned, before main cleaned it
Accumulated == Concat(oa_articles)
DateOf(frame, i) == Cell(frame, frame.rows[i], "publication_date")
\* row a of the accumulated table as it is persisted: its date converted
Persisted(a) ==
    [j \in 1..Len(Accumulated.columns) |->
        IF Accumulated.columns[j] = "publication_date"
        THEN ToDatetimeValue(Accumulated.rows[a][j]) ELSE Accumulated.rows[a][j]]

\* C11: every row of a table oa_api.main persists is a harvested record whose
\* publication_date was present and not null; a record without the key or
\* with a null date is in no persisted table, whatever pages were harvested.
C11_NullDatesFiltered ==
    \A w \in 1..Len(written) :
        \A i \in 1..Len(written[w].table.rows) :
            \E a \in 1..Len(Accumulated.rows) :
                /\ ~IsNA(DateOf(Accumulated, a))
                /\ written[w].table.rows[i] = Persisted(a)

\* a table with rows was persisted from a harvest that held a record with a
\* null date and a record without the publication_date key
C11_Witness ==
    /\ pc = "done" /\ Len(written) = 1 /\ Len(written[1].table.rows) >= 1
    /\ \E a, b \in 1..Len(Accumulated.rows) :
           DateOf(Accumulated, a) = JNull /\ DateOf(Accumulated, b) = NaN

-----------------------------------------------------------------------------
(* Properties of get_all_works, checked under SpecWorks.  They are stated  *)
(* over the pages the endpoint returned and the frames accumulated.        *)

\* the pages yielded so far, as the endpoint returned them
PagesYielded == [k \in 1..Len(yields) |-> replies[yields[k]].results]
\* the loop body is running on the last of them, or it raised there
InLoopBody == works # NoPage
PagesProcessed == SubSeq(PagesYielded, 1, processed)

IsRecords(page) == page[1] = "list" /\ page[2] # <<>>
\* lines 110-113 raise on the record
RecordFails(rec) ==
    \/ ~DictHas(rec, "id")
    \/ DictGet(rec, "id", JNull)[1] # "text"
    \/ /\ Truthy(DictGet(rec, "abstract_inverted_index", JNull))
       /\ revert_abstract_index(DictGet(rec, "abstract_inverted_index", JNull)[2]).err # "none"
\* the keys of the record when the loop over the works is done with it
HasKeyAfter(rec, key) ==
    \/ DictHas(rec, key)
    \/ key = "abstract" /\ Truthy(DictGet(rec, "abstract_inverted_index", JNull))
\* every name of COLUMNS is a key of some record of the page
Projectable(page) ==
    \A j \in 1..Len(COLUMNS) : \E i \in 1..Len(page[2]) : HasKeyAfter(page[2][i], COLUMNS[j])
\* the frame a projectable page adds: one row per record, the COLUMNS in order
ExpectedFrame(page) ==
    [columns |-> COLUMNS,
     rows |-> [i \in 1..Len(page[2]) |->
                  LET after == ProcessWork(page[2][i]).work
                  IN  [j \in 1..Len(COLUMNS) |-> DictGet(after, COLUMNS[j], NaN)]]]
\* the frames of the pages that have records and can be projected, in order
RECURSIVE ExpectedArticles(_)
ExpectedArticles(pages) ==
    IF pages = <<>> THEN <<>>
    ELSE (IF IsRecords(pages[1]) /\ Projectable(pages[1])
          THEN <<ExpectedFrame(pages[1])>> ELSE <<>>)
         \o ExpectedArticles(Tail(pages))

\* C12: the frames accumulated are those of the projectable pages, in order,
\* whatever unprojectable pages came before, between or after them and
\* whichever identifier they belong to; and a run that ended in the loop body
\* ended on a page that is no list or has a record that raises, never on a
\* page that only cannot be projected.
C12_ProjectionFailurePolicy ==
    /\ oa_articles = ExpectedArticles(PagesProcessed)
    /\ (pc = "failed" /\ InLoopBody) =>
           \/ works[1] # "list"
           \/ \E i \in 1..Len(works[2]) : RecordFails(works[2][i])

\* a projectable page, then an unprojectable one that ends the first
\* identifier, then a projectable page of the second identifier: the table
\* written holds the first and the third
C12_Witness ==
    /\ pc = "done" /\ Len(yields) = 3 /\ Len(oa_articles) = 2
    /\ IsRecords(PagesYielded[1]) /\ Projectable(PagesYielded[1])
    /\ IsRecords(PagesYielded[2]) /\ ~Projectable(PagesYielded[2])
    /\ IsRecords(PagesYielded[3]) /\ Projectable(PagesYielded[3])
    /\ requests[yields[2]].gen = 1 /\ requests[yields[3]].gen = 2

-----------------------------------------------------------------------------
(* Properties of both orchestrators, checked under Spec. *)

EmptyPage == JList(<<>>)
\* the request whose page was yielded last
LastYield == yields[Len(yields)]

\* C13: an empty page adds no frame (the frames are as many as the pages with
\* records that were processed), it raises nothing, after it the generator of
\* the same identifier goes on with the next_cursor of its response, and a
\* harvest that returns has consumed the generator of every identifier.
C13_EmptyPageSkipped ==
    /\ Len(oa_articles) =
           Cardinality({k \in 1..Len(PagesProcessed) : IsRecords(PagesProcessed[k])})
    /\ (pc = "failed" /\ InLoopBody) => works # EmptyPage
    /\ (/\ yields # <<>> /\ PagesYielded[Len(yields)] = EmptyPage
        /\ pc = "next" /\ gen = requests[LastYield].gen) =>
           /\ error = "none"
           /\ cursor = (IF ReplyNext(replies[LastYield]) = Absent THEN JFalse
                        ELSE ReplyNext(replies[LastYield]))
    /\ pc \in {"assembled", "cleaned", "done"} => ended = 1..GenCount

\* an empty page with a next token, then a page with records of the same
\* identifier, then the first request of the next identifier
C13_Witness ==
    /\ Len(requests) = 3 /\ Len(yields) >= 2
    /\ PagesYielded[1] = EmptyPage /\ IsRecords(PagesYielded[2])
    /\ requests[2].gen = 1 /\ requests[3].gen = 2
    /\ Len(oa_articles) = 1

\* C14: every request has its response before anything else happens; a
\* request is sent only when every page yielded before has been processed; the
\* requests follow the order of the identifiers, and a request for an
\* identifier is sent only when the generators of all earlier ones have ended.
C14_StrictlySequential ==
    /\ Len(replies) = Len(requests)
    /\ Len(requests) <= processed + 1
    /\ \A i \in 1..Len(requests) :
           /\ \A g \in 1..(requests[i].gen - 1) : g \in ended
           /\ \A j \in (i + 1)..Len(requests) : requests[i].gen <= requests[j].gen

\* the second page of the first identifier was processed, its generator
\* ended, and the first page of the second identifier is being processed
C14_Witness ==
    /\ Len(requests) = 3 /\ requests[2].gen = 1 /\ requests[3].gen = 2
    /\ pc = "page" /\ InLoopBody /\ Len(PagesProcessed) = 2 /\ 1 \in ended

\* C15: at most one object or file is ever written; a run has written one
\* exactly when it is done; what it wrote is the whole table, assembled from
\* every frame accumulated (and cleaned, in oa_api), after every generator
\* ended and every page yielded was processed; a run that failed wrote nothing.
C15_SinglePersistence ==
    /\ Len(written) <= 1
    /\ pc = "done" <=> Len(written) = 1
    /\ written # <<>> =>
           /\ ended = 1..GenCount
           /\ Len(yields) = Len(requests) /\ processed = Len(yields)
           /\ written[1].table =
                  (IF script = "oa_api" THEN Clean(Accumulated) ELSE Accumulated)
    /\ pc = "failed" => written = <<>>

\* a run over two identifiers and three pages is done and has written its
\* table, which has rows
C15_Witness ==
    /\ pc = "done" /\ Len(written) = 1 /\ written[1].table.rows # <<>>
    /\ Len(requests) = 3 /\ ended = {1, 2}

-----------------------------------------------------------------------------
(* Identifier normalisation in get_all_works, checked under SpecWorks. *)

Kept(page) == IsRecords(page) /\ Projectable(page)
\* the pages whose frames were accumulated, as the endpoint returned them
KeptPages == SelectSeq(PagesProcessed, Kept)
RawId(rec) == DictGet(rec, "id", JNull)[2]
Occurs(old, text) == \E at \in 1..Len(text) : IsPrefixAt(text, old, at)
StartsWithPrefix(text) == IsPrefixAt(text, OpenAlexPrefix, 1)
AfterPrefix(text) == SubSeq(text, Len(OpenAlexPrefix) + 1, Len(text))

\* C16, as stated: no id in the accumulated table starts with the prefix.
C16_NoIdStartsWithPrefix ==
    \A f \in 1..Len(oa_articles) : \A i \in 1..Len(oa_articles[f].rows) :
        ~StartsWithPrefix(IdsOf(oa_articles[f])[i][2])

\* C16, amended: in the accumulated table the id of a record whose id was the
\* prefix followed by a name without the prefix is that name, and an id
\* without the prefix is unchanged; so such ids do not start with the prefix.
\* The ids of the persisted table are among these ids, so de-duplication
\* compares the ids as normalised.
C16_PrefixStripped ==
    /\ LET kept == KeptPages
       IN  /\ Len(oa_articles) = Len(kept)
           /\ \A f \in 1..Len(oa_articles) : \A i \in 1..Len(oa_articles[f].rows) :
                  LET raw == RawId(kept[f][2][i])
                      id == Cell(oa_articles[f], oa_articles[f].rows[i], "id")
                  IN  /\ (StartsWithPrefix(raw) /\ ~Occurs(OpenAlexPrefix, AfterPrefix(raw)))
                             => id = JText(AfterPrefix(raw)) /\ ~StartsWithPrefix(id[2])
                      /\ ~Occurs(OpenAlexPrefix, raw) => id = JText(raw)
    /\ \A w \in 1..Len(written) :
           Range(IdsOf(written[w].table)) \subseteq Range(IdsOf(Accumulated))

\* a record came with the prefix and, on a later page, with its bare id; the
\* table written holds that id once
C16_Witness ==
    /\ pc = "done" /\ Len(written) = 1
    /\ \E f, g \in 1..Len(KeptPages) :
           \E i \in 1..Len(KeptPages[f][2]) : \E j \in 1..Len(KeptPages[g][2]) :
               /\ f < g
               /\ StartsWithPrefix(RawId(KeptPages[f][2][i]))
               /\ RawId(KeptPages[g][2][j]) = AfterPrefix(RawId(KeptPages[f][2][i]))
               /\ JText(RawId(KeptPages[g][2][j])) \in Range(IdsOf(written[1].table))

-----------------------------------------------------------------------------
(* Properties of DataGetter, checked under SpecGetter. *)

\* the calls that asked _fetch_data for a file, and the extension they asked for
Requested == {c \in 1..Len(calls) : calls[c].path # <<>> /\ calls[c].path[1] = data_dir}
Extension(c) == calls[c].path[2][Len(calls[c].path[2])]

\* C17: a requested .parquet file is read with the parquet reader and a
\* requested .csv file with the CSV reader.
C17_ExtensionDispatch ==
    \A c \in Requested :
        /\ Extension(c) = ".parquet" => calls[c].reader = "read_parquet"
        /\ Extension(c) = ".csv" => calls[c].reader = "read_csv"

\* C18: a requested file whose extension is neither .parquet nor .csv gives
\* an explicit unsupported-file-type error and no data, and no reader is
\* invoked for it.
C18_UnsupportedFileType ==
    \A c \in Requested :
        Extension(c) \notin {".parquet", ".csv"} =>
            /\ calls[c].err = "UnsupportedFileType"
            /\ calls[c].reader = "none"
            /\ calls[c].data = <<>>

\* the valid names of a parameterised fetch, and a call outside them
ValidNames(method) ==
    CASE method = "get_oa_articles" -> Institutions
      [] method = "get_horizon2020_projects" -> horizon_2020_project_dfs
      [] method = "load_institution_ids" -> <<"TT", "EE">>
UnknownName(c) ==
    /\ calls[c].method \in
           {"get_oa_articles", "get_horizon2020_projects", "load_institution_ids"}
    /\ (IF calls[c].method = "get_oa_articles" THEN calls[c].arg ELSE calls[c].arg[1])
           \notin Range(ValidNames(calls[c].method))
\* the names are in the message of the exception, or in an ERROR log record
Enumerated(c) ==
    \/ calls[c].message = ValidNames(calls[c].method)
    \/ \E k \in 1..Len(log) :
           log[k].level = "ERROR" /\ log[k].names = ValidNames(calls[c].method)

C20_SyncWhenMissingOrEmpty ==
    [][(gpc = "new" /\ gpc' # "new" /\ local) =>
           IF ~directory.exists \/ directory.files = {}
           THEN Len(syncs') = 1 ELSE syncs' = <<>>]_vars

\* a synchronization of this session reported failure
SyncFailed == \E k \in 1..Len(syncs) : syncs[k] # 0

\* C21: when the copy command of the synchronization reports failure the
\* construction does not complete normally, and no dataset is read from the
\* directory that was not synchronized.
C21_SyncFailureIsFatal ==
    SyncFailed =>
        /\ gpc # "ready"
        /\ \A c \in 1..Len(calls) :
               ~(calls[c].reader # "none" /\ calls[c].path[1] = LocalDataDir)

-----------------------------------------------------------------------------
(* The output of both programs, checked under Spec. *)

\* C22: in both programs a run that succeeds produces exactly one output: with
\* the bucket argument "None" a local file and no upload, with any other
\* bucket an upload to that bucket and no local file; a run that has not
\* succeeded has produced none.
C22_OutputSelection ==
    /\ pc = "done" => Len(written) = 1
    /\ pc # "done" => written = <<>>
    /\ \A w \in 1..Len(written) :
           IF args.bucket = "None"
           THEN written[w].to = "file" /\ written[w].bucket = ""
           ELSE written[w].to = "s3" /\ written[w].bucket = args.bucket

\* oa_institutions_api ran with the bucket "None" and wrote its table, which
\* has rows, to a local file
C22_Witness ==
    /\ pc = "done" /\ script = "oa_institutions_api" /\ args.bucket = "None"
    /\ Len(written) = 1 /\ written[1].to = "file" /\ written[1].table.rows # <<>>

-----------------------------------------------------------------------------
(* Which pages get_all_works keeps, checked under SpecWorks. *)

\* some record of the page has the key "abstract" when the loop over the works
\* is done, and every other name of COLUMNS is a key of some record
HasAbstractAfter(page) == \E i \in 1..Len(page[2]) : HasKeyAfter(page[2][i], "abstract")
OtherColumnsPresent(page) ==
    \A c \in Range(COLUMNS) \ {"abstract"} : \E i \in 1..Len(page[2]) : DictHas(page[2][i], c)

\* C23: the loop body, run to its end on a page with records, appends one
\* frame when some record got an abstract and every other name of COLUMNS is a
\* key of some record, and leaves the accumulated frames as they were
\* otherwise; so a page none of whose records carries a non-empty inverted
\* index is dropped.
C23_AbstractNeeded ==
    [][(pc = "page" /\ pc' = "next" /\ IsRecords(works)) =>
           IF HasAbstractAfter(works) /\ OtherColumnsPresent(works)
           THEN /\ Len(oa_articles') = Len(oa_articles) + 1
                /\ SubSeq(oa_articles', 1, Len(oa_articles)) = oa_articles
           ELSE oa_articles' = oa_articles]_vars

\* a run is done that kept one page and dropped a page whose records have
\* every other column but no inverted index that is not empty
C23_Witness ==
    /\ pc = "done" /\ processed = 2 /\ Len(oa_articles) = 1
    /\ \E k \in 1..2 :
           /\ IsRecords(PagesProcessed[k])
           /\ OtherColumnsPresent(PagesProcessed[k])
           /\ ~HasAbstractAfter(PagesProcessed[k])
           /\ \A i \in 1..Len(PagesProcessed[k][2]) : ~RecordFails(PagesProcessed[k][2][i])

\* the first row of the accumulated table with the id of row a
FirstWithId(a) ==
    CHOOSE b \in 1..a :
        /\ IdsOf(Accumulated)[b] = IdsOf(Accumulated)[a]
        /\ \A c \in 1..(b - 1) : IdsOf(Accumulated)[c] # IdsOf(Accumulated)[a]

\* C24: an id of the accumulated table is in the table oa_api.main persists
\* exactly when the first accumulated row with that id has a publication_date
\* that is not null, whatever dates the later rows with that id have.
C24_FirstOccurrenceDecides ==
    \A w \in 1..Len(written) :
        \A a \in 1..Len(Accumulated.rows) :
            IdsOf(Accumulated)[a] \in Range(IdsOf(written[w].table))
                <=> ~IsNA(DateOf(Accumulated, FirstWithId(a)))

\* a table with rows was persisted from a harvest in which an id came first
\* with a null date and later with a date: the id is not in the table
C24_Witness ==
    /\ pc = "done" /\ Len(written) = 1 /\ written[1].table.rows # <<>>
    /\ \E a, b \in 1..Len(Accumulated.rows) :
           /\ a < b /\ FirstWithId(b) = a
           /\ IsNA(DateOf(Accumulated, a)) /\ ~IsNA(DateOf(Accumulated, b))
           /\ IdsOf(Accumulated)[a] \notin Range(IdsOf(written[1].table))

\* C25: when the page being processed has a record that raises in lines
\* 110-113 (no id, or an inverted index that is not empty and has no position)
\* the run fails there with that exception: get_all_works returns no table,
\* the frames accumulated so far go nowhere, and nothing is written then or
\* later, a failed run taking no further step.
C25_RecordErrorPropagates ==
    [][/\ pc # "failed"
       /\ (pc = "page" /\ IsRecords(works)
               /\ \E i \in 1..Len(works[2]) : RecordFails(works[2][i])) =>
              /\ pc' = "failed" /\ error' \in {"KeyError", "ValueError", "AttributeError"}
              /\ df' = EmptyDataFrame /\ written' = <<>>]_vars

\* a page was accumulated, then a page came whose record has an inverted index
\* without positions: the run failed in the loop body, nothing written
C25_Witness ==
    /\ pc = "failed" /\ InLoopBody /\ error = "ValueError"
    /\ oa_articles # <<>> /\ df = EmptyDataFrame /\ written = <<>>
    /\ IsRecords(works)
    /\ \E i \in 1..Len(works[2]) :
           /\ RecordFails(works[2][i])
           /\ DictHas(works[2][i], "id")
           /\ Truthy(DictGet(works[2][i], "abstract_inverted_index", JNull))

\* the inverted index a record came with, and the abstract it is to get
IndexOf(rec) == DictGet(rec, "abstract_inverted_index", Absent)
NoIndex(rec) == IndexOf(rec) \in {Absent, JNull, JDict(<<>>)}
HasIndex(rec) == IndexOf(rec)[1] = "dict" /\ IndexOf(rec)[2] # <<>>
AbstractOf(frame, i) == Cell(frame, frame.rows[i], "abstract")

\* C26: the loop body on a page with records fails only on a record without
\* an id or one whose inverted index is a mapping that is not empty and that
\* revert_abstract_index fails on, never on a record whose index is absent,
\* null or empty; and in the frame it appends, the abstract of a record whose
\* index is absent, null or empty is missing, and that of a record whose index
\* is a mapping that is not empty is what revert_abstract_index returns for it.
C26_NoRevertOfEmptyIndex ==
    [][(pc = "page" /\ IsRecords(works)) =>
           /\ pc' = "failed" =>
                  \E i \in 1..Len(works[2]) :
                      \/ ~DictHas(works[2][i], "id")
                      \/ /\ HasIndex(works[2][i])
                         /\ revert_abstract_index(IndexOf(works[2][i])[2]).err # "none"
           /\ Len(oa_articles') = Len(oa_articles) + 1 =>
                  \A i \in 1..Len(works[2]) :
                      LET abstract == AbstractOf(oa_articles'[Len(oa_articles')], i)
                      IN  /\ NoIndex(works[2][i]) => abstract = NaN
                          /\ HasIndex(works[2][i]) =>
                                 abstract =
                                     JText(revert_abstract_index(IndexOf(works[2][i])[2]).text)
      ]_vars

\* three pages were kept, with a record without the index key, one with a null
\* index and one with an empty index among them, each without an abstract
C26_Witness ==
    /\ Len(oa_articles) = 3 /\ Len(KeptPages) = 3
    /\ \A index \in {Absent, JNull, JDict(<<>>)} :
           \E f \in 1..3 : \E i \in 1..Len(KeptPages[f][2]) :
               /\ IndexOf(KeptPages[f][2][i]) = index
               /\ AbstractOf(oa_articles[f], i) = NaN

\* C27: when get_all_works has returned and no frame was accumulated, the
\* table it returned has no columns and no rows, and the only step oa_api.main
\* takes from there is to fail with KeyError in its pipe, nothing written.
C27_EmptyHarvestFails ==
    [][(pc = "assembled" /\ oa_articles = <<>>) =>
           /\ df.columns = <<>> /\ df.rows = <<>>
           /\ pc' = "failed" /\ error' = "KeyError" /\ written' = <<>>]_vars

\* the generators of two identifiers ended after an empty page and a page that
\* was dropped, nothing was accumulated, and main failed with KeyError
C27_Witness ==
    /\ pc = "failed" /\ error = "KeyError" /\ ~InLoopBody
    /\ ended = 1..GenCount /\ GenCount = 2
    /\ oa_articles = <<>> /\ written = <<>>
    /\ processed = Len(yields)
    /\ \E j, k \in 1..processed :
           PagesProcessed[j] = EmptyPage /\ IsRecords(PagesProcessed[k])

=============================================================================
